---- MODULE Spec2Model ----
(***************************************************************************)
(* Ticket monitor (scrape -> filter -> dedupe -> notify) of the London     *)
(* repository: the seen-ticket store (database.py), the criteria filter    *)
(* (filter.py, config.py), the listing identity (scraper.py), the         *)
(* notifier (notifications.py) and the orchestrator (monitor.py).          *)
(*                                                                         *)
(* Strings that the code inspects (section, row, the pre-hash string) are  *)
(* sequences of one-character strings; Python's None is the value None.    *)
(* Dicts are records; a missing key is a field outside the DOMAIN.         *)
(* Timestamps (datetime.now().isoformat(), compared as text by SQLite) are *)
(* instants of an integer clock; one unit is one day, instant 1 is the     *)
(* first day of a month.                                                   *)
(***************************************************************************)
EXTENDS Integers, Sequences, FiniteSets, TLC

VARIABLES
    seen_tickets,   \* rows of table seen_tickets (database.py:22-34)
    now,            \* the clock read by datetime.now()
    call,           \* the last direct call of a component's API: arguments, outcome
    searches,       \* Config.searches: the configured matches, in order
    tick,           \* the number of check_tickets runs started so far
    idx,            \* check_tickets: index of the next search; 0 when no tick runs
    runs,           \* per search, its last _check_match run: inputs and how it ended
    notifications,  \* the send_notification calls made so far, in order
    proc            \* the process: where main() and start() are, exit code, scheduler

vars == <<seen_tickets, now, call, searches, tick, idx, runs, notifications, proc>>

MonitorVars == <<searches, tick, idx, runs, notifications, proc>>

----------------------------------------------------------------------------
(* Bounds of the model *)

MaxBatch == 2       \* longest listing list handed to the store or the notifier
MaxPage == 1        \* longest listing list a scraped page gives
MaxTime == 2        \* the clock runs over 1..MaxTime
MaxDays == 2        \* cleanup_old_tickets(days) is called with days in 0..MaxDays
MaxTicks == 2       \* check_tickets runs per behaviour
MaxFilterBatch == 3 \* longest listing list handed to filter_tickets
MaxStrLen == 1      \* longest section or row text handed to _generate_ticket_id
MaxMatches == 2     \* numbered MATCH_<n>_... slots the environment may set
MaxFires == 2       \* runs of the interval job after the immediate tick of start()
MaxOffers == 2      \* most offer elements of a page
MaxPrices == 1      \* most elements the price selectors of the alternative scan match

----------------------------------------------------------------------------
(* Listings: scraper.py *)

None == <<"None">>

\* Python's `s or ''` for s an Optional[str]
OrEmpty(s) == IF s = None THEN <<>> ELSE s

\* hashlib.md5(...).hexdigest(): a digest, taken to be collision-free
md5(s) == [digest_of |-> s]

Digit(d) ==
    CASE d = 0 -> "0" [] d = 1 -> "1" [] d = 2 -> "2" [] d = 3 -> "3" [] d = 4 -> "4"
      [] d = 5 -> "5" [] d = 6 -> "6" [] d = 7 -> "7" [] d = 8 -> "8" [] d = 9 -> "9"

\* f"{n}" for an int n >= 0
RECURSIVE str_int(_)
str_int(n) == IF n < 10 THEN <<Digit(n)>> ELSE str_int(n \div 10) \o <<Digit(n % 10)>>

\* f"{p}" for a float p; the prices of this model are whole pounds: '250.0'
str_float(p) == str_int(p) \o <<".", "0">>

\* f"{price}_{quantity}_{section or ''}_{row or ''}", then md5
_generate_ticket_id(price, quantity, section, row) ==
    md5(str_float(price) \o <<"_">> \o str_int(quantity) \o <<"_">>
          \o OrEmpty(section) \o <<"_">> \o OrEmpty(row))

\* the dict _parse_ticket_element returns (currency, always 'GBP' or the page's
\* text, is read by nothing and left out)
Listing(price, quantity, section, row, url) ==
    [price |-> price, quantity |-> quantity, section |-> section, row |-> row,
     url |-> url,
     ticket_id |-> _generate_ticket_id(price, quantity, section, row)]

\* The listings of this model.  L1 and L2 have the same identity (None and ''
\* collapse) but are different dicts.
L1 == Listing(250, 2, None, None, "event")
L2 == Listing(250, 2, <<>>, <<>>, "buy")
L3 == Listing(350, 2, <<"A">>, None, "event")
L4 == Listing(200, 1, None, None, "event")

L5 == Listing(300, 2, <<"A", "B">>, None, "event")
L6 == Listing(301, 2, <<"b">>, None, "event")

\* the listings handed to the store's API
Listings == {L1, L2, L3}

\* the listings a scraped page can show
PageListings == {L1, L4}

\* every list of at most n elements of S
RECURSIVE ListsUpTo(_, _)
ListsUpTo(S, n) ==
    IF n = 0 THEN {<<>>}
    ELSE LET shorter == ListsUpTo(S, n - 1)
         IN  shorter \cup {Append(b, t) : b \in {l \in shorter : Len(l) = n - 1},
                                          t \in S}

Pages == ListsUpTo(PageListings, MaxPage)

MatchNames == {"M1", "M2"}

\* no process is modelled: a component is called directly
NoProc ==
    [pc |-> "none", env |-> <<>>, run_once |-> FALSE, fatal |-> "none", exit |-> <<>>,
     interrupted |-> FALSE, executing |-> 0, skipped |-> FALSE]

----------------------------------------------------------------------------
(* The identity called directly, twice: _generate_ticket_id for two listings. *)
(* Section and row are None or the text of a page element: any string.       *)

\* None, or a string of at most MaxStrLen characters
IdTexts == {None} \cup ListsUpTo({"A", "_"}, MaxStrLen)

\* (price, quantity, section, row)
IdTuples == {100, 250} \X {1, 2} \X IdTexts \X IdTexts

\* the two argument tuples; ticket_ids: the identities generated so far
IdentityInput(a, b) == [op |-> "none", args |-> <<a, b>>, ticket_ids |-> <<>>]

\* _generate_ticket_id for the next tuple
GenerateTicketId ==
    /\ "args" \in DOMAIN call
    /\ Len(call.ticket_ids) < Len(call.args)
    /\ LET a == call.args[Len(call.ticket_ids) + 1]
       IN  call' = [call EXCEPT !.op = "_generate_ticket_id",
                                !.ticket_ids = Append(call.ticket_ids,
                                    _generate_ticket_id(a[1], a[2], a[3], a[4]))]
    /\ UNCHANGED <<seen_tickets, now, MonitorVars>>

InitIdentity ==
    /\ seen_tickets = {}
    /\ now = 1
    /\ call \in {IdentityInput(a, b) : a \in IdTuples, b \in IdTuples}
    /\ searches = <<>>
    /\ tick = 0
    /\ idx = 0
    /\ runs = <<>>
    /\ notifications = <<>>
    /\ proc = NoProc

NextIdentity == GenerateTicketId

SpecIdentity == InitIdentity /\ [][NextIdentity]_vars

----------------------------------------------------------------------------
(* Seen-ticket store: database.py *)

\* SELECT ... FROM seen_tickets WHERE ticket_id = ?
SelectById(table, ticket_id) == {r \in table : r.ticket_id = ticket_id}

\* INSERT INTO seen_tickets: ticket_id is the PRIMARY KEY, so a row whose key
\* is taken is refused (sqlite3.IntegrityError) and the table keeps its rows
Insert(table, r) ==
    IF SelectById(table, r.ticket_id) # {} THEN table ELSE table \cup {r}

\* faulty variant: UPDATE ... SET first_seen = ?, last_seen = ?
UpdateLastSeen_TouchesFirst(table, ticket_id, t) ==
    {IF r.ticket_id = ticket_id THEN [r EXCEPT !.first_seen = t, !.last_seen = t] ELSE r :
        r \in table}

\* UPDATE seen_tickets SET last_seen = ? WHERE ticket_id = ?
UpdateLastSeen(table, ticket_id, t) ==
    {IF r.ticket_id = ticket_id THEN [r EXCEPT !.last_seen = t] ELSE r : r \in table}

\* faulty variant: the lookup finds nothing
is_seen_never(table, ticket_id) == FALSE

is_seen(table, ticket_id) == SelectById(table, ticket_id) # {}

\* faulty variant: INSERT OR REPLACE, whatever the table holds
mark_seen_overwrite(table, ticket, match_name, t) ==
    {r \in table : r.ticket_id # ticket.ticket_id}
    \cup {[ticket_id |-> ticket.ticket_id, match_name |-> match_name,
           price |-> ticket.price, quantity |-> ticket.quantity,
           section |-> ticket.section, row |-> ticket.row, url |-> ticket.url,
           first_seen |-> t, last_seen |-> t]}

\* mark_seen at instant t
mark_seen(table, ticket, match_name, t) ==
    IF SelectById(table, ticket.ticket_id) # {}
    THEN UpdateLastSeen(table, ticket.ticket_id, t)
    ELSE Insert(table, [ticket_id |-> ticket.ticket_id,
                        match_name |-> match_name,
                        price |-> ticket.price,
                        quantity |-> ticket.quantity,
                        section |-> ticket.section,
                        row |-> ticket.row,
                        url |-> ticket.url,
                        first_seen |-> t,
                        last_seen |-> t])

\* ticket.get('ticket_id') is truthy: the key is there (a digest is never '')
HasTicketId(ticket) == "ticket_id" \in DOMAIN ticket

\* faulty variant: the new ticket is reported and not marked seen
GetNewBody_NoMark(table, ticket, match_name, t, fail, new_tickets) ==
    IF fail
    THEN [table |-> table, new_tickets |-> <<>>, raised |-> TRUE]
    ELSE IF ~is_seen(table, ticket.ticket_id)
    THEN [table |-> table, new_tickets |-> Append(new_tickets, ticket), raised |-> FALSE]
    ELSE [table |-> table, new_tickets |-> new_tickets, raised |-> FALSE]

\* faulty variant: a ticket counts as seen only under the match name of the call
GetNewBody_ScopedByMatch(table, ticket, match_name, t, fail, new_tickets) ==
    IF fail
    THEN [table |-> table, new_tickets |-> <<>>, raised |-> TRUE]
    ELSE IF ~(\E r \in SelectById(table, ticket.ticket_id) : r.match_name = match_name)
    THEN [table |-> mark_seen(table, ticket, match_name, t),
          new_tickets |-> Append(new_tickets, ticket), raised |-> FALSE]
    ELSE [table |-> table, new_tickets |-> new_tickets, raised |-> FALSE]

\* One pass of the loop body of get_new_tickets, for `ticket`, at instant t.
\* fail: the store operations of this pass raise (sqlite3.Error in is_seen, or
\* in mark_seen before its commit); the exception leaves get_new_tickets, whose
\* result is lost, and the rows committed by earlier passes stay.
GetNewBody(table, ticket, match_name, t, fail, new_tickets) ==
    IF ~HasTicketId(ticket)
    THEN [table |-> table, new_tickets |-> new_tickets, raised |-> FALSE]
    ELSE IF fail
    THEN [table |-> table, new_tickets |-> <<>>, raised |-> TRUE]
    ELSE IF ~is_seen(table, ticket.ticket_id)
    THEN [table |-> mark_seen(table, ticket, match_name, t),
          new_tickets |-> Append(new_tickets, ticket), raised |-> FALSE]
    ELSE [table |-> table, new_tickets |-> new_tickets, raised |-> FALSE]

\* The loop of get_new_tickets from ticket i on; failAt = i > 0 makes pass i raise
RECURSIVE GetNewLoop(_, _, _, _, _, _, _)
GetNewLoop(table, tickets, i, match_name, t, failAt, new_tickets) ==
    IF i > Len(tickets)
    THEN [table |-> table, new_tickets |-> new_tickets, raised |-> FALSE]
    ELSE LET r == GetNewBody(table, tickets[i], match_name, t, failAt = i, new_tickets)
         IN  IF r.raised THEN r
             ELSE GetNewLoop(r.table, tickets, i + 1, match_name, t, failAt,
                             r.new_tickets)

get_new_tickets(table, tickets, match_name, t, failAt) ==
    GetNewLoop(table, tickets, 1, match_name, t, failAt, <<>>)

\* datetime.now().day, for the clock's instant t
DayOfMonth(t) == ((t - 1) % 31) + 1

\* cleanup_old_tickets(days) at instant t: datetime.replace(day=day - days)
\* raises ValueError when day - days is no day of the month, before the DELETE
cleanup_old_tickets(table, days, t) ==
    IF DayOfMonth(t) - days < 1
    THEN [table |-> table, deleted_count |-> 0, raised |-> TRUE]
    ELSE LET cutoff_date == t - days
             old == {r \in table : r.last_seen < cutoff_date}
         IN  [table |-> table \ old, deleted_count |-> Cardinality(old),
              raised |-> FALSE]

----------------------------------------------------------------------------
(* The store's API, called in any order.  get_new_tickets runs its loop one  *)
(* pass per step, over a list given ticket by ticket; no other call starts  *)
(* while it runs (one thread).                                              *)

Range(seq) == {seq[i] : i \in DOMAIN seq}

NoCall ==
    [op |-> "none", tickets |-> <<>>, match_name |-> "", days |-> 0,
     running |-> FALSE, raised |-> FALSE, new_tickets |-> <<>>, found |-> FALSE,
     deleted_count |-> 0, pre_ids |-> {}, again |-> FALSE,
     prev_fresh |-> FALSE, prev_new |-> <<>>]

NoMatchRun ==
    [tick |-> 0, loaded |-> FALSE, all_tickets |-> <<>>, outcome |-> "none",
     pre_ids |-> {}, prev_outcome |-> "none"]

IdsOf(table) == {r.ticket_id : r \in table}

IsSeen(ticket) ==
    /\ ~call.running
    /\ call' = [NoCall EXCEPT !.op = "is_seen", !.tickets = <<ticket>>,
                              !.found = is_seen(seen_tickets, ticket.ticket_id),
                              !.pre_ids = IdsOf(seen_tickets)]
    /\ UNCHANGED <<seen_tickets, now, MonitorVars>>

MarkSeen(ticket, match_name) ==
    /\ ~call.running
    /\ seen_tickets' = mark_seen(seen_tickets, ticket, match_name, now)
    /\ call' = [NoCall EXCEPT !.op = "mark_seen", !.tickets = <<ticket>>,
                              !.match_name = match_name,
                              !.pre_ids = IdsOf(seen_tickets)]
    /\ UNCHANGED <<now, MonitorVars>>

\* get_new_tickets is called: new_tickets = []
GetNewTickets_Call(match_name) ==
    /\ ~call.running
    /\ call' = [NoCall EXCEPT !.op = "get_new_tickets", !.match_name = match_name,
                              !.running = TRUE, !.pre_ids = IdsOf(seen_tickets)]
    /\ UNCHANGED <<seen_tickets, now, MonitorVars>>

\* one pass of its loop, for the next ticket of the list
GetNewTickets_Loop(ticket, fail) ==
    /\ call.running
    /\ Len(call.tickets) < MaxBatch
    /\ LET r == GetNewBody(seen_tickets, ticket, call.match_name, now, fail,
                           call.new_tickets)
       IN  /\ seen_tickets' = r.table
           /\ call' = [call EXCEPT !.tickets = Append(call.tickets, ticket),
                                   !.new_tickets = r.new_tickets,
                                   !.raised = r.raised,
                                   !.running = ~r.raised]
    /\ UNCHANGED <<now, MonitorVars>>

\* the list is exhausted: return new_tickets
GetNewTickets_Return ==
    /\ call.running
    /\ call' = [call EXCEPT !.running = FALSE]
    /\ UNCHANGED <<seen_tickets, now, MonitorVars>>

\* get_new_tickets is called again with the list and the match name of the
\* call that has just returned
GetNewTickets_Again(failAt) ==
    /\ ~call.running
    /\ call.op = "get_new_tickets"
    /\ ~call.raised
    /\ failAt <= Len(call.tickets)
    /\ LET r == get_new_tickets(seen_tickets, call.tickets, call.match_name, now,
                                failAt)
       IN  /\ seen_tickets' = r.table
           /\ call' = [call EXCEPT !.new_tickets = r.new_tickets,
                                   !.raised = r.raised,
                                   !.pre_ids = IdsOf(seen_tickets),
                                   !.again = TRUE,
                                   !.prev_fresh =
                                       {t.ticket_id : t \in Range(call.tickets)}
                                           \cap call.pre_ids = {},
                                   !.prev_new = call.new_tickets]
    /\ UNCHANGED <<now, MonitorVars>>

CleanupOldTickets(days) ==
    /\ ~call.running
    /\ LET r == cleanup_old_tickets(seen_tickets, days, now)
       IN  /\ seen_tickets' = r.table
           /\ call' = [NoCall EXCEPT !.op = "cleanup_old_tickets", !.days = days,
                                     !.raised = r.raised,
                                     !.deleted_count = r.deleted_count,
                                     !.pre_ids = IdsOf(seen_tickets)]
    /\ UNCHANGED <<now, MonitorVars>>

\* time passes
AdvanceClock ==
    /\ now < MaxTime
    /\ now' = now + 1
    /\ UNCHANGED <<seen_tickets, call, MonitorVars>>

InitStore ==
    /\ seen_tickets = {}
    /\ now = 1
    /\ call = NoCall
    /\ searches = <<>>
    /\ tick = 0
    /\ idx = 0
    /\ runs = <<>>
    /\ notifications = <<>>
    /\ proc = NoProc

NextStore ==
    \/ \E ticket \in Listings : IsSeen(ticket)
    \/ \E ticket \in Listings, match_name \in MatchNames : MarkSeen(ticket, match_name)
    \/ \E match_name \in MatchNames : GetNewTickets_Call(match_name)
    \/ \E ticket \in Listings, fail \in BOOLEAN : GetNewTickets_Loop(ticket, fail)
    \/ GetNewTickets_Return
    \/ \E failAt \in 0..MaxBatch : GetNewTickets_Again(failAt)
    \/ \E days \in 0..MaxDays : CleanupOldTickets(days)
    \/ AdvanceClock

SpecStore == InitStore /\ [][NextStore]_vars

----------------------------------------------------------------------------
(* Configuration: config.py *)

\* the dataclass SearchCriteria: these five attributes and no other
SearchCriteria(match_name, min_tickets, max_price, trustable_seller_only, notify_seen_tickets) ==
    [match_name |-> match_name, min_tickets |-> min_tickets, max_price |-> max_price,
     trustable_seller_only |-> trustable_seller_only,
     notify_seen_tickets |-> notify_seen_tickets]

\* Config.searches as _load_searches builds it from MATCH_<n>_NAME, ..., here
\* for one or two matches
Configs ==
    {<<SearchCriteria("M1", 2, 300, FALSE, n1)>> : n1 \in BOOLEAN}
    \cup {<<SearchCriteria("M1", 2, 300, FALSE, n1), SearchCriteria("M2", 2, 300, FALSE, n2)>> :
            n1 \in BOOLEAN, n2 \in BOOLEAN}

----------------------------------------------------------------------------
(* Criteria filter: filter.py.  A method returns [raised, value]; reading an *)
(* attribute the criteria object does not have raises AttributeError.       *)

Return(v) == [raised |-> FALSE, value |-> v]
Raise == [raised |-> TRUE, value |-> FALSE]

HasAttr(obj, name) == name \in DOMAIN obj

\* self.criteria.min_price <= price <= self.criteria.max_price, left to right
_matches_price(criteria, ticket) ==
    IF ~HasAttr(criteria, "min_price") THEN Raise
    ELSE IF ~(criteria.min_price <= ticket.price) THEN Return(FALSE)
    ELSE IF ~HasAttr(criteria, "max_price") THEN Raise
    ELSE Return(ticket.price <= criteria.max_price)

_matches_quantity(criteria, ticket) ==
    IF ~HasAttr(criteria, "quantity_needed") THEN Raise
    ELSE Return(ticket.quantity >= criteria.quantity_needed)

\* str.lower() over the model's alphabet
LowerChar(c) == CASE c = "A" -> "a" [] c = "B" -> "b" [] OTHER -> c

Lower(str) == [i \in 1..Len(str) |-> LowerChar(str[i])]

\* Python's `a in b` for strings
Contains(b, a) ==
    \E i \in 0..(Len(b) - Len(a)) : SubSeq(b, i + 1, i + Len(a)) = a

\* faulty variant: only `preferred_lower in section_lower` is tried
_matches_section_one_way(criteria, ticket) ==
    IF ticket.section = None \/ ticket.section = <<>>
    THEN Return(criteria.preferred_sections = <<>>)
    ELSE Return(\E k \in 1..Len(criteria.preferred_sections) :
                   Contains(Lower(ticket.section), Lower(criteria.preferred_sections[k])))

\* _matches_section is reached only with preferred_sections there and non-empty
_matches_section(criteria, ticket) ==
    IF ticket.section = None \/ ticket.section = <<>>
    THEN Return(criteria.preferred_sections = <<>>)
    ELSE Return(\E k \in 1..Len(criteria.preferred_sections) :
                   \/ Contains(Lower(ticket.section), Lower(criteria.preferred_sections[k]))
                   \/ Contains(Lower(criteria.preferred_sections[k]), Lower(ticket.section)))

\* the section check of _matches_criteria: the listing is refused when
\* `self.criteria.preferred_sections and not self._matches_section(ticket)`
section_check(criteria, ticket) ==
    IF ~HasAttr(criteria, "preferred_sections") THEN Raise
    ELSE IF criteria.preferred_sections = <<>> THEN Return(TRUE)
    ELSE _matches_section(criteria, ticket)

_matches_criteria(criteria, ticket) ==
    LET p == _matches_price(criteria, ticket)
        q == _matches_quantity(criteria, ticket)
    IN  IF p.raised \/ ~p.value THEN p
        ELSE IF q.raised \/ ~q.value THEN q
        ELSE section_check(criteria, ticket)

\* faulty variant: matching_tickets.insert(0, ticket)
RECURSIVE FilterLoop_Prepends(_, _, _, _)
FilterLoop_Prepends(criteria, tickets, i, matching_tickets) ==
    IF i > Len(tickets)
    THEN [raised |-> FALSE, tickets |-> matching_tickets]
    ELSE LET m == _matches_criteria(criteria, tickets[i])
         IN  IF m.raised THEN [raised |-> TRUE, tickets |-> <<>>]
             ELSE FilterLoop_Prepends(criteria, tickets, i + 1,
                                      IF m.value THEN <<tickets[i]>> \o matching_tickets
                                      ELSE matching_tickets)

\* the loop of filter_tickets from ticket i on: [raised, tickets]
RECURSIVE FilterLoop(_, _, _, _)
FilterLoop(criteria, tickets, i, matching_tickets) ==
    IF i > Len(tickets)
    THEN [raised |-> FALSE, tickets |-> matching_tickets]
    ELSE LET m == _matches_criteria(criteria, tickets[i])
         IN  IF m.raised THEN [raised |-> TRUE, tickets |-> <<>>]
             ELSE FilterLoop(criteria, tickets, i + 1,
                             IF m.value THEN Append(matching_tickets, tickets[i])
                             ELSE matching_tickets)

filter_tickets_prepends(criteria, tickets) ==
    FilterLoop_Prepends(criteria, tickets, 1, <<>>)

filter_tickets(criteria, tickets) == FilterLoop(criteria, tickets, 1, <<>>)

----------------------------------------------------------------------------
(* The filter called directly.  TicketFilter(criteria) keeps whatever       *)
(* object it is given; the criteria are the SearchCriteria of config.py, or *)
(* such an object that also carries the attributes filter.py reads          *)
(* (min_price, quantity_needed, preferred_sections: the single-search       *)
(* shape main.py still refers to).  No listing carries 'trustable_seller':  *)
(* the scraper never sets the key.                                          *)

\* a criteria object with the attributes of SearchCriteria and those the
\* filter reads
ExtendedCriteria(search, min_price, quantity_needed, preferred_sections) ==
    [min_price |-> min_price, quantity_needed |-> quantity_needed,
     preferred_sections |-> preferred_sections] @@ search

PreferredSections == {<<>>, << <<"a">> >>, << <<"B">>, <<"a", "b">> >>}

FilterCriteria ==
    {SearchCriteria("M1", 2, 300, t, FALSE) : t \in BOOLEAN}
    \cup {ExtendedCriteria(SearchCriteria("M1", 2, 300, t, FALSE), mp, 2, ps) :
            t \in BOOLEAN, mp \in {0, 300}, ps \in PreferredSections}

FilterListings == {L1, L2, L3, L4, L5, L6}

FilterBatches == ListsUpTo(FilterListings, MaxFilterBatch)

\* the arguments a caller holds: a criteria object and a list of listings
FilterInput(criteria, tickets) ==
    [op |-> "none", criteria |-> criteria, tickets |-> tickets,
     raised |-> FALSE, value |-> FALSE, matching_tickets |-> <<>>]

IsFilterCall == HasAttr(call, "criteria")

\* TicketFilter(criteria).filter_tickets(tickets)
FilterTickets ==
    /\ IsFilterCall
    /\ LET r == filter_tickets(call.criteria, call.tickets)
       IN  call' = [call EXCEPT !.op = "filter_tickets", !.raised = r.raised,
                                !.value = FALSE, !.matching_tickets = r.tickets]
    /\ UNCHANGED <<seen_tickets, now, MonitorVars>>

\* TicketFilter(criteria)._matches_price(tickets[0])
MatchesPrice ==
    /\ IsFilterCall
    /\ call.tickets # <<>>
    /\ LET r == _matches_price(call.criteria, call.tickets[1])
       IN  call' = [call EXCEPT !.op = "_matches_price", !.raised = r.raised,
                                !.value = r.value, !.matching_tickets = <<>>]
    /\ UNCHANGED <<seen_tickets, now, MonitorVars>>

\* TicketFilter(criteria)._matches_quantity(tickets[0])
MatchesQuantity ==
    /\ IsFilterCall
    /\ call.tickets # <<>>
    /\ LET r == _matches_quantity(call.criteria, call.tickets[1])
       IN  call' = [call EXCEPT !.op = "_matches_quantity", !.raised = r.raised,
                                !.value = r.value, !.matching_tickets = <<>>]
    /\ UNCHANGED <<seen_tickets, now, MonitorVars>>

\* the section check of _matches_criteria for tickets[0]
SectionCheck ==
    /\ IsFilterCall
    /\ call.tickets # <<>>
    /\ LET r == section_check(call.criteria, call.tickets[1])
       IN  call' = [call EXCEPT !.op = "section_check", !.raised = r.raised,
                                !.value = r.value, !.matching_tickets = <<>>]
    /\ UNCHANGED <<seen_tickets, now, MonitorVars>>

InitFilter ==
    /\ seen_tickets \in {{}, mark_seen({}, L1, "M1", 1)}
    /\ now = 1
    /\ call \in {FilterInput(c, ts) : c \in FilterCriteria, ts \in FilterBatches}
    /\ searches = <<>>
    /\ tick = 0
    /\ idx = 0
    /\ runs = <<>>
    /\ notifications = <<>>
    /\ proc = NoProc

NextFilter ==
    \/ FilterTickets
    \/ MatchesPrice
    \/ MatchesQuantity
    \/ SectionCheck

SpecFilter == InitFilter /\ [][NextFilter]_vars

----------------------------------------------------------------------------
(* Notifier: notifications.py.  A channel's sender gives [attempted, raised]: *)
(* attempted when it got past its configuration check to the delivery (the   *)
(* SMTP session, the HTTP post, the notification command), raised when an    *)
(* exception leaves it.  fails.<channel>: the delivery of the channel raises. *)

\* the dataclass NotificationSettings; its Optional[str] fields are None or a text
NotificationSettings(email_enabled, email_to, email_username, pushover_enabled, pushover_api_key, pushover_user_key, desktop_notifications_enabled) ==
    [email_enabled |-> email_enabled, email_to |-> email_to,
     email_username |-> email_username, pushover_enabled |-> pushover_enabled,
     pushover_api_key |-> pushover_api_key, pushover_user_key |-> pushover_user_key,
     desktop_notifications_enabled |-> desktop_notifications_enabled]

\* Python's `not s` for s an Optional[str]
Falsy(s) == s = None \/ s = <<>>

\* f"{ticket.get('price', 'N/A'):.2f}" raises ValueError for a dict without price
_format_message(tickets) ==
    [raised |-> \E i \in DOMAIN tickets : ~HasAttr(tickets[i], "price")]

\* faulty variant: no try/except around the SMTP session
_send_email_uncaught(settings, fails) ==
    IF Falsy(settings.email_to) \/ Falsy(settings.email_username)
    THEN [attempted |-> FALSE, raised |-> FALSE]
    ELSE [attempted |-> TRUE, raised |-> fails.email]

_send_email(settings, fails) ==
    IF Falsy(settings.email_to) \/ Falsy(settings.email_username)
    THEN [attempted |-> FALSE, raised |-> FALSE]
    ELSE [attempted |-> TRUE, raised |-> FALSE]

_send_pushover(settings, fails) ==
    IF Falsy(settings.pushover_api_key) \/ Falsy(settings.pushover_user_key)
    THEN [attempted |-> FALSE, raised |-> FALSE]
    ELSE [attempted |-> TRUE, raised |-> FALSE]

_send_desktop_notification(settings, fails) ==
    [attempted |-> TRUE, raised |-> FALSE]

\* the channels of send_notification, in the order it goes through them:
\* a channel is called when it is enabled and no exception has left an
\* earlier step
send_notification(settings, tickets, fails) ==
    IF tickets = <<>> THEN [attempts |-> <<>>, raised |-> FALSE]
    ELSE IF _format_message(tickets).raised THEN [attempts |-> <<>>, raised |-> TRUE]
    ELSE LET email == IF settings.email_enabled THEN _send_email(settings, fails)
                      ELSE [attempted |-> FALSE, raised |-> FALSE]
             pushover == IF ~email.raised /\ settings.pushover_enabled
                         THEN _send_pushover(settings, fails)
                         ELSE [attempted |-> FALSE, raised |-> FALSE]
             desktop == IF ~email.raised /\ ~pushover.raised
                           /\ settings.desktop_notifications_enabled
                        THEN _send_desktop_notification(settings, fails)
                        ELSE [attempted |-> FALSE, raised |-> FALSE]
         IN  [attempts |-> (IF email.attempted THEN <<"email">> ELSE <<>>)
                           \o (IF pushover.attempted THEN <<"pushover">> ELSE <<>>)
                           \o (IF desktop.attempted THEN <<"desktop">> ELSE <<>>),
              raised |-> email.raised \/ pushover.raised \/ desktop.raised]

OptionalTexts == {None, <<"x">>}

Settings ==
    {NotificationSettings(ee, et, eu, pe, pa, pu, de) :
        ee \in BOOLEAN, et \in OptionalTexts, eu \in OptionalTexts,
        pe \in BOOLEAN, pa \in OptionalTexts, pu \in OptionalTexts, de \in BOOLEAN}

Failures == [email : BOOLEAN, pushover : BOOLEAN, desktop : BOOLEAN]

\* the arguments of a send_notification call, its settings and which
\* deliveries will fail
NotifyInput(settings, tickets, fails) ==
    [op |-> "none", settings |-> settings, tickets |-> tickets, fails |-> fails,
     attempts |-> <<>>, raised |-> FALSE]

\* NotificationService(settings).send_notification(tickets, match_name)
SendNotification ==
    /\ HasAttr(call, "settings")
    /\ call.op = "none"
    /\ LET r == send_notification(call.settings, call.tickets, call.fails)
       IN  call' = [call EXCEPT !.op = "send_notification", !.attempts = r.attempts,
                                !.raised = r.raised]
    /\ UNCHANGED <<seen_tickets, now, MonitorVars>>

InitNotify ==
    /\ seen_tickets = {}
    /\ now = 1
    /\ call \in {NotifyInput(st, ts, f) :
                     st \in Settings, ts \in ListsUpTo({L1, L3}, MaxBatch), f \in Failures}
    /\ searches = <<>>
    /\ tick = 0
    /\ idx = 0
    /\ runs = <<>>
    /\ notifications = <<>>
    /\ proc = NoProc

NextNotify == SendNotification

SpecNotify == InitNotify /\ [][NextNotify]_vars

----------------------------------------------------------------------------
(* Orchestrator: monitor.py *)

\* scrape_event: the listings extracted from the page; every exception of the
\* page load or of the extraction is caught there and leaves tickets = []
\* faulty variant: the listings of a page whose load failed are returned
scrape_event_keeps_listings(loaded, shown) == shown

\* loaded: page.goto succeeded; when it raises, `tickets` is still []
scrape_event(loaded, shown) == IF loaded THEN shown ELSE <<>>

\* faulty variant: no try/except, an exception of the filter or of the store
\* leaves _check_match (outcome "raised")
_check_match_uncaught(search, all_tickets, table, t, failAt) ==
    IF all_tickets = <<>>
    THEN [table |-> table, sent |-> <<>>, outcome |-> "no_tickets"]
    ELSE LET matching == filter_tickets(search, all_tickets)
         IN  IF matching.raised
             THEN [table |-> table, sent |-> <<>>, outcome |-> "raised"]
             ELSE IF matching.tickets = <<>>
             THEN [table |-> table, sent |-> <<>>, outcome |-> "no_match"]
             ELSE LET new == get_new_tickets(table, matching.tickets,
                                             search.match_name, t, failAt)
                  IN  IF new.raised
                      THEN [table |-> new.table, sent |-> <<>>, outcome |-> "raised"]
                      ELSE IF new.new_tickets # <<>>
                      THEN [table |-> new.table, sent |-> new.new_tickets,
                            outcome |-> "notified"]
                      ELSE [table |-> new.table, sent |-> <<>>, outcome |-> "no_new"]

\* faulty variant: send_notification(matching_tickets) comes before
\* get_new_tickets, so it also runs when the store fails or knows the listing
_check_match_notifies_first(search, all_tickets, table, t, failAt) ==
    IF all_tickets = <<>>
    THEN [table |-> table, sent |-> <<>>, outcome |-> "no_tickets"]
    ELSE LET matching == filter_tickets(search, all_tickets)
         IN  IF matching.raised
             THEN [table |-> table, sent |-> <<>>, outcome |-> "error"]
             ELSE IF matching.tickets = <<>>
             THEN [table |-> table, sent |-> <<>>, outcome |-> "no_match"]
             ELSE LET new == get_new_tickets(table, matching.tickets,
                                             search.match_name, t, failAt)
                  IN  IF new.raised
                      THEN [table |-> new.table, sent |-> matching.tickets,
                            outcome |-> "error"]
                      ELSE [table |-> new.table, sent |-> matching.tickets,
                            outcome |-> "notified"]

\* faulty variant: get_new_tickets is given all_tickets, not the filter's output
_check_match_skips_filter(search, all_tickets, table, t, failAt) ==
    IF all_tickets = <<>>
    THEN [table |-> table, sent |-> <<>>, outcome |-> "no_tickets"]
    ELSE LET new == get_new_tickets(table, all_tickets, search.match_name, t, failAt)
         IN  IF new.raised
             THEN [table |-> new.table, sent |-> <<>>, outcome |-> "error"]
             ELSE IF new.new_tickets # <<>>
             THEN [table |-> new.table, sent |-> new.new_tickets, outcome |-> "notified"]
             ELSE [table |-> new.table, sent |-> <<>>, outcome |-> "no_new"]

\* _check_match for `search`, the page giving all_tickets: the table it
\* leaves, the list it hands to send_notification (<<>>: no call) and the
\* branch it ends in
_check_match(search, all_tickets, table, t, failAt) ==
    IF all_tickets = <<>>
    THEN [table |-> table, sent |-> <<>>, outcome |-> "no_tickets"]
    ELSE LET matching == filter_tickets(search, all_tickets)
         IN  IF matching.raised
             THEN [table |-> table, sent |-> <<>>, outcome |-> "error"]
             ELSE IF matching.tickets = <<>>
             THEN [table |-> table, sent |-> <<>>, outcome |-> "no_match"]
             ELSE LET new == get_new_tickets(table, matching.tickets,
                                             search.match_name, t, failAt)
                  IN  IF new.raised
                      THEN [table |-> new.table, sent |-> <<>>, outcome |-> "error"]
                      ELSE IF new.new_tickets # <<>>
                      THEN [table |-> new.table, sent |-> new.new_tickets,
                            outcome |-> "notified"]
                      ELSE [table |-> new.table, sent |-> <<>>, outcome |-> "no_new"]

\* idx when the process has ended: an exception left start()
Exited == -1

\* check_tickets is entered: a tick starts
CheckTickets_Begin ==
    /\ idx = 0
    /\ tick < MaxTicks
    /\ tick' = tick + 1
    /\ idx' = 1
    /\ proc' = [proc EXCEPT !.executing = @ + 1]
    /\ UNCHANGED <<seen_tickets, now, call, searches, runs, notifications>>

\* The loop of check_tickets: _check_match(searches[idx]).  check_tickets has
\* no handler of its own: an exception that leaves _check_match leaves
\* check_tickets; in the first tick, which start() runs itself, it leaves
\* start() and the process ends; in a scheduled tick the scheduler logs it
\* and the tick is over.
CheckMatchRun(loaded, shown, failAt) ==
    /\ idx \in 1..Len(searches)
    /\ LET search == searches[idx]
           all_tickets == scrape_event(loaded, shown)
           r == _check_match(search, all_tickets, seen_tickets, now, failAt)
       IN  /\ seen_tickets' = r.table
           /\ notifications' =
                 IF r.sent # <<>>
                 THEN Append(notifications, [tick |-> tick, match_name |-> search.match_name,
                                             tickets |-> r.sent])
                 ELSE notifications
           /\ runs' = [runs EXCEPT ![idx] =
                           [tick |-> tick, loaded |-> loaded, all_tickets |-> all_tickets,
                            outcome |-> r.outcome, pre_ids |-> IdsOf(seen_tickets),
                            prev_outcome |-> runs[idx].outcome]]
           /\ idx' = IF r.outcome # "raised" THEN idx + 1
                     ELSE IF tick = 1 THEN Exited
                     ELSE 0
    /\ UNCHANGED <<now, call, searches, tick>>

CheckMatch(loaded, shown, failAt) ==
    /\ CheckMatchRun(loaded, shown, failAt)
    /\ UNCHANGED proc

\* The caller of check_tickets goes on: run_once returns to main, which
\* returns (exit code 0); start goes on to register the interval job; a
\* scheduler that is shutting down was waiting for this job only.
AfterTick(p) ==
    IF p.pc \in {"run_once", "shutdown"} THEN [p EXCEPT !.pc = "exited", !.exit = <<0>>]
    ELSE IF p.pc = "start_tick" THEN [p EXCEPT !.pc = "add_job"]
    ELSE p

\* check_tickets returns: the tick is over
CheckTickets_End ==
    /\ idx = Len(searches) + 1
    /\ idx' = 0
    /\ proc' = AfterTick([proc EXCEPT !.executing = @ - 1])
    /\ UNCHANGED <<seen_tickets, now, call, searches, tick, runs, notifications>>

Init ==
    /\ seen_tickets = {}
    /\ now = 1
    /\ call = NoCall
    /\ searches \in Configs
    /\ tick = 0
    /\ idx = 0
    /\ runs = [i \in 1..Len(searches) |-> NoMatchRun]
    /\ notifications = <<>>
    /\ proc = NoProc

Next ==
    \/ CheckTickets_Begin
    \/ \E shown \in Pages, failAt \in 0..MaxPage :
          /\ shown # <<>>
          /\ failAt <= Len(shown)
          /\ CheckMatch(TRUE, shown, failAt)
    \/ \E shown \in Pages : CheckMatch(FALSE, shown, 0)
    \/ CheckTickets_End
    \/ AdvanceClock

Spec == Init /\ [][Next]_vars

\* a step of the tick handler
TickStep ==
    \/ CheckTickets_Begin
    \/ \E loaded \in BOOLEAN, shown \in Pages, failAt \in 0..MaxPage :
          CheckMatch(loaded, shown, failAt)
    \/ CheckTickets_End

\* The scheduler fires check_tickets at every interval and the handler, once
\* entered, runs on: the steps of a tick are taken when they stay possible.
SpecLive == Init /\ [][Next]_vars /\ WF_vars(TickStep)

----------------------------------------------------------------------------
(* The process: main.py over Config (config.py).  The environment gives a   *)
(* text or None (unset) for MATCH_<n>_NAME, MATCH_<n>_MIN_TICKETS,          *)
(* MATCH_<n>_MAX_PRICE of the slots 1..MaxMatches, for the legacy           *)
(* MATCH_NAME, MIN_TICKETS, MAX_PRICE, and RUN_ONCE.  Names carry no blanks *)
(* around them; numbers are written without sign, point or blanks; the      *)
(* variables of the notifier and CHECK_INTERVAL_MINUTES are left unset.     *)

DigitChars == {"0", "1", "2", "3", "4", "5", "6", "7", "8", "9"}

DigitValue(c) == CHOOSE d \in 0..9 : Digit(d) = c

RECURSIVE DigitsValue(_)
DigitsValue(text) ==
    IF text = <<>> THEN 0
    ELSE 10 * DigitsValue(SubSeq(text, 1, Len(text) - 1)) + DigitValue(text[Len(text)])

\* int(text) and float(text): the number, or ValueError for a text that is no number
ParseNumber(text) ==
    IF text # <<>> /\ \A i \in DOMAIN text : text[i] \in DigitChars
    THEN Return(DigitsValue(text))
    ELSE Raise

EnvMatch(name, min_tickets, max_price) ==
    [name |-> name, min_tickets |-> min_tickets, max_price |-> max_price]

\* os.getenv(key, default)
GetEnv(value, default) == IF value = None THEN default ELSE value

\* text.strip(), for the blank " "
RECURSIVE strip(_)
strip(text) ==
    IF text = <<>> THEN <<>>
    ELSE IF Head(text) = " " THEN strip(Tail(text))
    ELSE IF text[Len(text)] = " " THEN strip(SubSeq(text, 1, Len(text) - 1))
    ELSE text

\* SearchCriteria(match_name=name.strip(), min_tickets=int(...), max_price=float(...), ...)
\* inside the try of the loader
BuildSearch(name, min_tickets, max_price) ==
    IF ParseNumber(min_tickets).raised \/ ParseNumber(max_price).raised
    THEN Raise
    ELSE Return(SearchCriteria(strip(name), ParseNumber(min_tickets).value,
                               ParseNumber(max_price).value, FALSE, FALSE))

\* the while loop of the loader from slot n on: stops at the first slot with
\* no name, raises ValueError at a named slot with a field missing or no number
RECURSIVE LoadNumbered(_, _, _)
LoadNumbered_SkipsIncomplete(slots, n, acc) ==
    IF n > Len(slots) \/ Falsy(slots[n].name) THEN Return(acc)
    ELSE IF Falsy(slots[n].min_tickets) \/ Falsy(slots[n].max_price)
              \/ BuildSearch(slots[n].name, slots[n].min_tickets, slots[n].max_price).raised
         THEN LoadNumbered(slots, n + 1, acc)
         ELSE LoadNumbered(slots, n + 1,
                 Append(acc, BuildSearch(slots[n].name, slots[n].min_tickets,
                                         slots[n].max_price).value))

LoadNumbered(slots, n, acc) ==
    IF n > Len(slots) \/ Falsy(slots[n].name) THEN Return(acc)
    ELSE IF Falsy(slots[n].min_tickets) \/ Falsy(slots[n].max_price) THEN Raise
    ELSE IF BuildSearch(slots[n].name, slots[n].min_tickets, slots[n].max_price).raised
         THEN Raise
         ELSE LoadNumbered(slots, n + 1,
                 Append(acc, BuildSearch(slots[n].name, slots[n].min_tickets,
                                         slots[n].max_price).value))

\* 'Arsenal vs Everton', the match of the default example
DefaultMatchName == <<"A", "r", "s", "e", "n", "a", "l", " ", "v", "s", " ", "E", "v", "e", "r", "t", "o", "n">>

\* the legacy single-match format and the default example
LoadLegacy(legacy) ==
    IF ~Falsy(legacy.name)
    THEN IF BuildSearch(legacy.name, GetEnv(legacy.min_tickets, <<"2">>),
                        GetEnv(legacy.max_price, <<"5", "0", "0">>)).raised
         THEN Raise
         ELSE Return(<<BuildSearch(legacy.name, GetEnv(legacy.min_tickets, <<"2">>),
                                   GetEnv(legacy.max_price, <<"5", "0", "0">>)).value>>)
    ELSE Return(<<SearchCriteria(DefaultMatchName, 2, 500, FALSE, FALSE)>>)

\* Config._load_searches: [raised, value]; raised is a ValueError
_load_searches(env) ==
    IF LoadNumbered(env.slots, 1, <<>>).raised THEN Raise
    ELSE IF LoadNumbered(env.slots, 1, <<>>).value # <<>>
         THEN LoadNumbered(env.slots, 1, <<>>)
         ELSE LoadLegacy(env.legacy)

\* the Config object: these three attributes and no other
Config(searches_) ==
    [notifications |-> "NotificationSettings", monitor |-> "MonitorSettings",
     searches |-> searches_]

EnvNames == {None, <<"A">>}
EnvMinTickets == {None, <<"2">>, <<"x">>}
EnvMaxPrices == {None, <<"3", "0", "0">>, <<"x">>}

EnvSlots == {EnvMatch(n, a, b) : n \in EnvNames, a \in EnvMinTickets, b \in EnvMaxPrices}

EnvLegacy == {EnvMatch(n, a, b) : n \in EnvNames, a \in {None, <<"x">>}, b \in {None, <<"x">>}}

\* what the loader reads of os.environ
Environment(slots, legacy) == [slots |-> slots, legacy |-> legacy]

\* config = Config(): the loader returns the searches or raises ValueError,
\* which the `except Exception` of main catches
Main_LoadConfig ==
    /\ proc.pc = "config"
    /\ IF _load_searches(proc.env).raised
       THEN /\ proc' = [proc EXCEPT !.pc = "except", !.fatal = "ValueError"]
            /\ UNCHANGED <<searches, runs>>
       ELSE /\ searches' = _load_searches(proc.env).value
            /\ runs' = [i \in 1..Len(_load_searches(proc.env).value) |-> NoMatchRun]
            /\ proc' = [proc EXCEPT !.pc = "validate"]
    /\ UNCHANGED <<seen_tickets, now, call, tick, idx, notifications>>

\* `if not config.search.match_name` and the log lines that read config.search,
\* up to TicketMonitor(config): a Config has no attribute `search`
Main_Validate ==
    /\ proc.pc = "validate"
    /\ proc' = IF ~HasAttr(Config(searches), "search")
               THEN [proc EXCEPT !.pc = "except", !.fatal = "AttributeError"]
               ELSE IF Falsy(Config(searches).search.match_name)
                    THEN [proc EXCEPT !.pc = "exited", !.exit = <<1>>]
                    ELSE [proc EXCEPT !.pc = "monitor"]
    /\ UNCHANGED <<seen_tickets, now, call, searches, tick, idx, runs, notifications>>

\* except Exception: logger.error(...); sys.exit(1)
Main_Fatal ==
    /\ proc.pc = "except"
    /\ proc' = [proc EXCEPT !.pc = "exited", !.exit = <<1>>]
    /\ UNCHANGED <<seen_tickets, now, call, searches, tick, idx, runs, notifications>>

InitMain ==
    /\ seen_tickets = {}
    /\ now = 1
    /\ call = NoCall
    /\ searches = <<>>
    /\ tick = 0
    /\ idx = 0
    /\ runs = <<>>
    /\ notifications = <<>>
    /\ \E slots \in [1..MaxMatches -> EnvSlots], legacy \in EnvLegacy, run_once \in BOOLEAN :
          proc = [NoProc EXCEPT !.pc = "config", !.env = Environment(slots, legacy),
                                !.run_once = run_once]

NextMain ==
    \/ Main_LoadConfig
    \/ Main_Validate
    \/ Main_Fatal

SpecMain == InitMain /\ [][NextMain]_vars

----------------------------------------------------------------------------
(* TicketMonitor.run_once and TicketMonitor.start under main: the immediate *)
(* tick, the interval job of the BlockingScheduler, and a KeyboardInterrupt. *)
(* scheduler.start() blocks the main thread and runs the job in a worker     *)
(* thread; add_job is called without max_instances, so the job has the       *)
(* scheduler's default of one running instance: a fire that finds the job    *)
(* running is skipped.  Python raises KeyboardInterrupt in the main thread.  *)

\* faulty variant: the job may run in any number of instances
instance_limit_never(executing) == FALSE

\* the job's max_instances (1) is reached
instance_limit_reached(executing) == executing >= 1

\* main: monitor.run_once()
Main_RunOnce ==
    /\ proc.pc = "monitor"
    /\ proc.run_once
    /\ tick < MaxTicks
    /\ tick' = tick + 1
    /\ idx' = 1
    /\ proc' = [proc EXCEPT !.pc = "run_once", !.executing = @ + 1]
    /\ UNCHANGED <<seen_tickets, now, call, searches, runs, notifications>>

\* faulty variant: start() goes to add_job without the immediate check
Start_NoImmediateTick ==
    /\ proc.pc = "monitor"
    /\ ~proc.run_once
    /\ proc' = [proc EXCEPT !.pc = "add_job"]
    /\ UNCHANGED <<seen_tickets, now, call, searches, tick, idx, runs, notifications>>

\* main: monitor.start(), up to its call of self.check_tickets()
Start_ImmediateTick ==
    /\ proc.pc = "monitor"
    /\ ~proc.run_once
    /\ tick < MaxTicks
    /\ tick' = tick + 1
    /\ idx' = 1
    /\ proc' = [proc EXCEPT !.pc = "start_tick", !.executing = @ + 1]
    /\ UNCHANGED <<seen_tickets, now, call, searches, runs, notifications>>

\* self.scheduler.add_job(self.check_tickets, trigger=IntervalTrigger(...))
Start_AddJob ==
    /\ proc.pc = "add_job"
    /\ proc' = [proc EXCEPT !.pc = "start_scheduler"]
    /\ UNCHANGED <<seen_tickets, now, call, searches, tick, idx, runs, notifications>>

\* self.scheduler.start()
Start_Scheduler ==
    /\ proc.pc = "start_scheduler"
    /\ proc' = [proc EXCEPT !.pc = "scheduler"]
    /\ UNCHANGED <<seen_tickets, now, call, searches, tick, idx, runs, notifications>>

\* the interval elapses and the job is run: check_tickets is entered
Fire ==
    /\ proc.pc = "scheduler"
    /\ ~instance_limit_reached(proc.executing)
    /\ tick < 1 + MaxFires
    /\ tick' = tick + 1
    /\ idx' = 1
    /\ proc' = [proc EXCEPT !.executing = @ + 1]
    /\ UNCHANGED <<seen_tickets, now, call, searches, runs, notifications>>

\* the interval elapses while the job is still running: the run is skipped
Fire_Skipped ==
    /\ proc.pc = "scheduler"
    /\ instance_limit_reached(proc.executing)
    /\ proc' = [proc EXCEPT !.skipped = TRUE]
    /\ UNCHANGED <<seen_tickets, now, call, searches, tick, idx, runs, notifications>>

\* KeyboardInterrupt while the main thread is in run_once() or in start()
\* before scheduler.start(): neither `except Exception` of the tick catches
\* it, it leaves check_tickets and start()/run_once(), and main's
\* `except KeyboardInterrupt` calls sys.exit(0)
Interrupt_InStart ==
    /\ ~proc.interrupted
    /\ proc.pc \in {"run_once", "start_tick", "add_job", "start_scheduler"}
    /\ idx' = 0
    /\ proc' = [proc EXCEPT !.interrupted = TRUE, !.pc = "exited", !.exit = <<0>>,
                            !.executing = 0]
    /\ UNCHANGED <<seen_tickets, now, call, searches, tick, runs, notifications>>

\* KeyboardInterrupt while the main thread, in the immediate tick, is in the
\* try of _extract_quantity, _extract_section or _extract_row: their bare
\* `except:` catches it, the element gets the default (here: section None)
\* and the tick goes on
Interrupt_Swallowed(shown, failAt) ==
    /\ ~proc.interrupted
    /\ proc.pc \in {"run_once", "start_tick"}
    /\ \E i \in DOMAIN shown : shown[i].section = None
    /\ CheckMatchRun(TRUE, shown, failAt)
    /\ proc' = [proc EXCEPT !.interrupted = TRUE]

\* KeyboardInterrupt while the main thread is in scheduler.start(): start()
\* catches it and calls scheduler.shutdown(), which waits for a running job;
\* then start() and main return
Interrupt_InScheduler ==
    /\ ~proc.interrupted
    /\ proc.pc = "scheduler"
    /\ proc' = IF proc.executing > 0
               THEN [proc EXCEPT !.interrupted = TRUE, !.pc = "shutdown"]
               ELSE [proc EXCEPT !.interrupted = TRUE, !.pc = "exited", !.exit = <<0>>]
    /\ UNCHANGED <<seen_tickets, now, call, searches, tick, idx, runs, notifications>>

\* main after TicketMonitor(config): RUN_ONCE is set or not
InitStart ==
    /\ seen_tickets = {}
    /\ now = 1
    /\ call = NoCall
    /\ searches \in Configs
    /\ tick = 0
    /\ idx = 0
    /\ runs = [i \in 1..Len(searches) |-> NoMatchRun]
    /\ notifications = <<>>
    /\ \E run_once \in BOOLEAN :
          proc = [NoProc EXCEPT !.pc = "monitor", !.run_once = run_once]

NextStart ==
    \/ Main_RunOnce
    \/ Start_ImmediateTick
    \/ \E shown \in Pages, failAt \in 0..MaxPage :
          /\ shown # <<>>
          /\ failAt <= Len(shown)
          /\ CheckMatch(TRUE, shown, failAt)
    \/ \E shown \in Pages : CheckMatch(FALSE, shown, 0)
    \/ CheckTickets_End
    \/ Start_AddJob
    \/ Start_Scheduler
    \/ Fire
    \/ Fire_Skipped
    \/ Interrupt_InStart
    \/ \E shown \in Pages, failAt \in 0..MaxPage :
          /\ shown # <<>>
          /\ failAt <= Len(shown)
          /\ Interrupt_Swallowed(shown, failAt)
    \/ Interrupt_InScheduler

SpecStart == InitStart /\ [][NextStart]_vars

----------------------------------------------------------------------------
(* Extraction: scraper.py.  A page is what its selector queries give: the   *)
(* offer elements of '[itemprop="offers"]' (query_fails: the query raises), *)
(* each with the text of its price element and of its quantity element      *)
(* (None: no such element), and the texts of the elements the price         *)
(* selectors of the alternative scan match.  Texts are over digits, "x",    *)
(* ",", " " and the letters of 'GBP'; no element has a section, a row or a  *)
(* link.                                                                    *)

\* text.replace(old, ''), old not empty
RECURSIVE Remove(_, _)
Remove(text, old) ==
    IF Len(text) < Len(old) THEN text
    ELSE IF SubSeq(text, 1, Len(old)) = old
         THEN Remove(SubSeq(text, Len(old) + 1, Len(text)), old)
         ELSE <<Head(text)>> \o Remove(Tail(text), old)

\* the longest run of digits that text starts with
RECURSIVE LeadingDigits(_)
LeadingDigits(text) ==
    IF text = <<>> \/ Head(text) \notin DigitChars THEN <<>>
    ELSE <<Head(text)>> \o LeadingDigits(Tail(text))

\* re.search(r'\d+', text).group(): the first run of digits, <<>> for no match
RECURSIVE FirstDigits(_)
FirstDigits(text) ==
    IF text = <<>> THEN <<>>
    ELSE IF Head(text) \in DigitChars THEN LeadingDigits(text)
    ELSE FirstDigits(Tail(text))

Element(price_text, quantity_text) ==
    [price_text |-> price_text, quantity_text |-> quantity_text]

\* _extract_quantity: the first number of the quantity element's text, 1
\* when there is no such element or no digit in its text
_extract_quantity(element) ==
    IF element.quantity_text # None /\ FirstDigits(strip(element.quantity_text)) # <<>>
    THEN DigitsValue(FirstDigits(strip(element.quantity_text)))
    ELSE 1

\* float(price_text.replace('GBP', '').replace(',', '').strip())
ParsePrice(price_text) ==
    ParseNumber(strip(Remove(Remove(strip(price_text), <<"G", "B", "P">>), <<",">>)))

\* _parse_ticket_element: <<the listing>>, or <<>> (Python's None) for an
\* element with no price element or with a price text that float() rejects
_parse_ticket_element(element) ==
    IF element.price_text = None THEN <<>>
    ELSE IF ParsePrice(element.price_text).raised THEN <<>>
    ELSE <<Listing(ParsePrice(element.price_text).value, _extract_quantity(element),
                   None, None, "event")>>

\* re.search(r'[\d,]+\.?\d*', price_text.replace(',', '')).group(): with no
\* comma left and no point in the text, the first run of digits
AlternativePrice(price_text) == FirstDigits(Remove(strip(price_text), <<",">>))

\* _extract_tickets_alternative: one listing per price text with a number
\* in it, quantity 1, no section, no row
RECURSIVE _extract_tickets_alternative(_)
_extract_tickets_alternative(price_texts) ==
    IF price_texts = <<>> THEN <<>>
    ELSE IF AlternativePrice(Head(price_texts)) # <<>>
         THEN <<Listing(DigitsValue(AlternativePrice(Head(price_texts))), 1, None, None,
                        "event")>>
              \o _extract_tickets_alternative(Tail(price_texts))
         ELSE _extract_tickets_alternative(Tail(price_texts))

\* the loop over offer_elements: the elements that parse, in page order
RECURSIVE ParseOffers(_)
ParseOffers(offers) ==
    IF offers = <<>> THEN <<>>
    ELSE _parse_ticket_element(Head(offers)) \o ParseOffers(Tail(offers))

\* faulty variant: the alternative scan is run for every page and its
\* listings are added to the parsed offers
_extract_tickets_merges(page) ==
    IF page.query_fails THEN [tickets |-> <<>>, alternative |-> FALSE]
    ELSE [tickets |-> ParseOffers(page.offers) \o _extract_tickets_alternative(page.prices),
          alternative |-> TRUE]

\* _extract_tickets: the listings, and whether _extract_tickets_alternative
\* was called
_extract_tickets(page) ==
    IF page.query_fails THEN [tickets |-> <<>>, alternative |-> FALSE]
    ELSE IF ParseOffers(page.offers) # <<>>
         THEN [tickets |-> ParseOffers(page.offers), alternative |-> FALSE]
         ELSE [tickets |-> _extract_tickets_alternative(page.prices), alternative |-> TRUE]

PriceTexts == {None, <<"G", "B", "P", "2", "5", "0">>, <<"x">>}
QuantityTexts == {None, <<"2">>, <<"0">>, <<"x">>}
AlternativeTexts == {<<"x", "2", "0", "0">>, <<"1", ",", "2", "5", "0">>, <<"x">>}

Elements == {Element(p, q) : p \in PriceTexts, q \in QuantityTexts}

\* the page as the selector queries of _extract_tickets see it
RenderedPage(offers, prices, query_fails) ==
    [offers |-> offers, prices |-> prices, query_fails |-> query_fails]

\* the page is rendered, nothing is extracted yet
ExtractInput(page) ==
    [op |-> "none", page |-> page, tickets |-> <<>>, alternative |-> FALSE]

\* tickets = self._extract_tickets(page, event_url)
ExtractTickets ==
    /\ call.op = "none"
    /\ call' = [call EXCEPT !.op = "_extract_tickets",
                            !.tickets = _extract_tickets(call.page).tickets,
                            !.alternative = _extract_tickets(call.page).alternative]
    /\ UNCHANGED <<seen_tickets, now, MonitorVars>>

\* ticket = self._parse_ticket_element(offer, event_url), for the first offer
ParseTicketElement ==
    /\ call.op = "none"
    /\ call.page.offers # <<>>
    /\ call' = [call EXCEPT !.op = "_parse_ticket_element",
                            !.tickets = _parse_ticket_element(Head(call.page.offers))]
    /\ UNCHANGED <<seen_tickets, now, MonitorVars>>

InitExtract ==
    /\ seen_tickets = {}
    /\ now = 1
    /\ \E offers \in ListsUpTo(Elements, MaxOffers),
          prices \in ListsUpTo(AlternativeTexts, MaxPrices), query_fails \in BOOLEAN :
          call = ExtractInput(RenderedPage(offers, prices, query_fails))
    /\ searches = <<>>
    /\ tick = 0
    /\ idx = 0
    /\ runs = <<>>
    /\ notifications = <<>>
    /\ proc = NoProc

NextExtract ==
    \/ ExtractTickets
    \/ ParseTicketElement

SpecExtract == InitExtract /\ [][NextExtract]_vars

----------------------------------------------------------------------------
(* The ticks of a monitor whose searches carry the attributes filter.py     *)
(* reads (min_price, quantity_needed, preferred_sections): the filter       *)
(* returns, and the store and the notifier are reached.                     *)

PipelineSearch1 == ExtendedCriteria(SearchCriteria("M1", 2, 300, FALSE, FALSE), 0, 2, <<>>)
PipelineSearch2 == ExtendedCriteria(SearchCriteria("M2", 1, 300, FALSE, FALSE), 0, 1, <<>>)

PipelineConfigs == {<<PipelineSearch1>>, <<PipelineSearch1, PipelineSearch2>>}

InitPipeline ==
    /\ seen_tickets = {}
    /\ now = 1
    /\ call = NoCall
    /\ searches \in PipelineConfigs
    /\ tick = 0
    /\ idx = 0
    /\ runs = [i \in 1..Len(searches) |-> NoMatchRun]
    /\ notifications = <<>>
    /\ proc = NoProc

\* the ticks alone, at one instant of the clock
NextPipeline ==
    \/ CheckTickets_Begin
    \/ \E shown \in Pages, failAt \in 0..MaxPage :
          /\ shown # <<>>
          /\ failAt <= Len(shown)
          /\ CheckMatch(TRUE, shown, failAt)
    \/ \E shown \in Pages : CheckMatch(FALSE, shown, 0)
    \/ CheckTickets_End

SpecPipeline == InitPipeline /\ [][NextPipeline]_vars

----------------------------------------------------------------------------
(* Properties *)

IdSet(tickets) == {t.ticket_id : t \in Range(tickets)}

\* ticket i is the first of the list with its identity
IsFirst(tickets, i) == \A j \in 1..(i - 1) : tickets[j].ticket_id # tickets[i].ticket_id

\* the listings of `tickets`, in order, that are the first with their identity
\* and whose identity is not in `known`
RECURSIVE FirstFrom(_, _, _)
FirstFrom(tickets, known, i) ==
    IF i > Len(tickets) THEN <<>>
    ELSE IF IsFirst(tickets, i) /\ tickets[i].ticket_id \notin known
    THEN <<tickets[i]>> \o FirstFrom(tickets, known, i + 1)
    ELSE FirstFrom(tickets, known, i + 1)

FirstOccurrences(tickets, known) == FirstFrom(tickets, known, 1)

Returned == call.op = "get_new_tickets" /\ ~call.running /\ ~call.raised

(* C1: get_new_tickets called twice in a row with the same list and match    *)
(* name, from a store that records none of the list's identities: the first *)
(* call returns the first listing of every identity, the second returns     *)
(* the empty list.                                                          *)
C1_DedupeIdempotence ==
    (Returned /\ call.again /\ call.prev_fresh) =>
        /\ call.prev_new = FirstOccurrences(call.tickets, {})
        /\ call.new_tickets = <<>>

C1_Witness ==
    /\ Returned /\ call.again /\ call.prev_fresh
    /\ Len(call.tickets) = 2
    /\ Cardinality(IdSet(call.tickets)) = 2
    /\ Len(call.prev_new) = 2

(* C2: the list get_new_tickets returns holds each identity at most once;   *)
(* of the listings of the batch that share an identity not yet recorded,    *)
(* it holds the first one only.                                             *)
C2_IntraBatchDedupe ==
    (call.op = "get_new_tickets" /\ ~call.raised) =>
        /\ \A i, j \in DOMAIN call.new_tickets :
              call.new_tickets[i].ticket_id = call.new_tickets[j].ticket_id => i = j
        /\ call.new_tickets = FirstOccurrences(call.tickets, call.pre_ids)

C2_Witness ==
    /\ Returned
    /\ Len(call.tickets) = 2
    /\ call.tickets[1].ticket_id = call.tickets[2].ticket_id
    /\ call.tickets[1] # call.tickets[2]
    /\ call.tickets[1].ticket_id \notin call.pre_ids
    /\ call.new_tickets = <<call.tickets[1]>>

\* the criteria of section 4.2 of the design for a configured match: price at
\* most max_price, quantity at least min_tickets, the trust flag if required
PassesCriteria(search, ticket) ==
    /\ ticket.price <= search.max_price
    /\ ticket.quantity >= search.min_tickets
    /\ search.trustable_seller_only =>
          (HasAttr(ticket, "trustable_seller") /\ ticket.trustable_seller)

\* send_notification was called in tick k for match_name with a listing of
\* identity ticket_id
NotifiedIn(log, k, match_name, ticket_id) ==
    \E n \in DOMAIN log :
        /\ log[n].tick = k
        /\ log[n].match_name = match_name
        /\ ticket_id \in IdSet(log[n].tickets)

(* C3: for a match with notify_seen_tickets off, a listing that passes the  *)
(* match's criteria is handed to the notifier in the first tick that        *)
(* observes it and in no later tick: once observed it has been notified,    *)
(* and in one tick only.                                                    *)
C3_NotifiedOnceWhenFirstObserved ==
    \A i \in DOMAIN runs :
        (runs[i].tick > 0 /\ ~searches[i].notify_seen_tickets) =>
            \A t \in Range(runs[i].all_tickets) :
                PassesCriteria(searches[i], t) =>
                    /\ \E k \in 1..runs[i].tick :
                          NotifiedIn(notifications, k, searches[i].match_name, t.ticket_id)
                    /\ \A k1, k2 \in 1..runs[i].tick :
                          (/\ NotifiedIn(notifications, k1, searches[i].match_name, t.ticket_id)
                           /\ NotifiedIn(notifications, k2, searches[i].match_name, t.ticket_id))
                          => k1 = k2

\* the pipeline of search i failed in the current tick: its page did not load,
\* or an exception reached the handler of _check_match
PipelineFailed(i) ==
    /\ runs[i].tick = tick
    /\ (~runs[i].loaded \/ runs[i].outcome = "error")

(* C4: when a tick is over, for every match whose pipeline failed in it,    *)
(* every other configured match was run in that tick and, if its page       *)
(* showed listings that pass its criteria and were not yet recorded, its    *)
(* notification was sent.                                                   *)
C4_MultiMatchIsolation ==
    (tick > 0 /\ idx = 0) =>
        \A i \in DOMAIN runs :
            PipelineFailed(i) =>
                \A j \in DOMAIN runs \ {i} :
                    /\ runs[j].tick = tick
                    /\ \A t \in Range(runs[j].all_tickets) :
                          (PassesCriteria(searches[j], t) /\ t.ticket_id \notin runs[j].pre_ids)
                          => NotifiedIn(notifications, tick, searches[j].match_name, t.ticket_id)

(* C5: a get_new_tickets call in which a store operation fails leaves       *)
(* nothing marked seen: the table records the identities it recorded        *)
(* before the call.                                                         *)
C5_FailureMarksNothing ==
    (call.op = "get_new_tickets" /\ call.raised) =>
        IdsOf(seen_tickets) = call.pre_ids

UniqueIdentities ==
    \A r1, r2 \in seen_tickets : r1.ticket_id = r2.ticket_id => r1 = r2

FirstSeenKept ==
    \A r1 \in seen_tickets : \A r2 \in seen_tickets' :
        r1.ticket_id = r2.ticket_id => r2.first_seen = r1.first_seen

(* C6: after any sequence of is_seen, mark_seen, get_new_tickets and        *)
(* cleanup_old_tickets calls the table holds at most one row per identity,  *)
(* and no step changes the first_seen of a row that stays in the table.     *)
C6_StoreInvariant == [](UniqueIdentities) /\ [][FirstSeenKept]_vars

C6_Witness ==
    /\ call.op = "cleanup_old_tickets"
    /\ call.deleted_count = 1
    /\ \E r \in seen_tickets : r.first_seen < r.last_seen

(* C7: a pass of the loop of get_new_tickets over a listing whose identity  *)
(* already has a row sets that row's last_seen to the instant of the pass.  *)
C7_LastSeenOnReobservation ==
    [][(/\ call.running
        /\ call'.op = "get_new_tickets"
        /\ Len(call'.tickets) = Len(call.tickets) + 1
        /\ ~call'.raised)
       => LET ticket == call'.tickets[Len(call'.tickets)]
          IN  is_seen(seen_tickets, ticket.ticket_id) =>
                 \A r \in SelectById(seen_tickets', ticket.ticket_id) : r.last_seen = now]_vars

\* the step is a mark_seen call, for call'.tickets[1] and call'.match_name
MarkSeenStep == ~call.running /\ call'.op = "mark_seen" /\ now' = now

(* C8: mark_seen inserts a row with first_seen = last_seen = now when the   *)
(* identity is unknown; when it is recorded it sets last_seen to now and    *)
(* leaves every other column of the row as first written, whatever values   *)
(* and match name the call carries; the rows of other identities stay.      *)
C8_InsertOrTouch ==
    [][MarkSeenStep =>
         LET id == call'.tickets[1].ticket_id
             old == SelectById(seen_tickets, id)
             new == SelectById(seen_tickets', id)
         IN  /\ old = {} =>
                   /\ Cardinality(new) = 1
                   /\ \A r \in new : r.first_seen = now /\ r.last_seen = now
             /\ old # {} => new = {[r EXCEPT !.last_seen = now] : r \in old}
             /\ seen_tickets' \ new = seen_tickets \ old]_vars

C8_Witness ==
    /\ call.op = "mark_seen"
    /\ Cardinality(seen_tickets) = 2
    /\ \E r \in SelectById(seen_tickets, call.tickets[1].ticket_id) :
          /\ r.first_seen < now
          /\ r.last_seen = now
          /\ r.match_name # call.match_name
          /\ r.url # call.tickets[1].url

(* C9: a listing that passes the criteria of a match and was observed by an *)
(* earlier tick of that match is in the notification of the current tick    *)
(* when notify_seen_tickets is set for the match, and is in none when it is *)
(* not set.                                                                 *)
C9_NotifySeenFlag ==
    [][\A i \in DOMAIN runs :
          (runs[i].tick > 0 /\ runs'[i].tick > runs[i].tick) =>
              \A t \in Range(runs'[i].all_tickets) :
                  (/\ PassesCriteria(searches[i], t)
                   /\ t.ticket_id \in IdSet(runs[i].all_tickets))
                  => (searches[i].notify_seen_tickets <=>
                         NotifiedIn(notifications', runs'[i].tick,
                                    searches[i].match_name, t.ticket_id))]_vars

(* C10 as claimed: get_new_tickets for a match reports a listing whose      *)
(* identity is recorded only under another match name.                      *)
C10_PartitionedByMatch ==
    Returned =>
        \A t \in Range(call.tickets) :
            (\A r \in SelectById(seen_tickets, t.ticket_id) : r.match_name # call.match_name)
            => t.ticket_id \in IdSet(call.new_tickets)

(* C10, amended: the table is keyed by identity alone.  get_new_tickets for *)
(* a match does not report a listing whose identity has a row under         *)
(* another match name, and that row keeps its match name.                   *)
C10_KeyedByIdentityAlone ==
    (call.op = "get_new_tickets" /\ ~call.raised) =>
        \A t \in Range(call.tickets) :
            (\E r \in SelectById(seen_tickets, t.ticket_id) : r.match_name # call.match_name)
            => t.ticket_id \notin IdSet(call.new_tickets)

C10_Witness ==
    /\ Returned
    /\ call.tickets # <<>>
    /\ call.new_tickets = <<>>
    /\ \E r \in SelectById(seen_tickets, call.tickets[1].ticket_id) :
          r.match_name # call.match_name

(* C11: the price check of a listing returns, and passes the listing iff   *)
(* min_price <= price <= max_price when the criteria define min_price, iff  *)
(* price <= max_price when they do not (so a price equal to max_price       *)
(* passes and a price one above fails).                                     *)
C11_PricePredicate ==
    call.op = "_matches_price" =>
        LET c == call.criteria
            price == call.tickets[1].price
        IN  /\ ~call.raised
            /\ call.value = (IF HasAttr(c, "min_price")
                             THEN c.min_price <= price /\ price <= c.max_price
                             ELSE price <= c.max_price)

\* the criteria {max_price: 300, min_tickets: 2} as config.py builds them
ScenarioCriteria == SearchCriteria("M1", 2, 300, FALSE, FALSE)

(* C12: filter_tickets returns, and keeps only listings whose quantity is   *)
(* at least the match's min_tickets; with the criteria {max_price: 300,     *)
(* min_tickets: 2} the listings [(250,2),(350,2),(200,1)] give [(250,2)].   *)
C12_QuantityPredicate ==
    (call.op = "filter_tickets" /\ HasAttr(call.criteria, "min_tickets")) =>
        /\ ~call.raised
        /\ \A t \in Range(call.matching_tickets) :
              t.quantity >= call.criteria.min_tickets
        /\ (call.criteria = ScenarioCriteria /\ call.tickets = <<L1, L3, L4>>)
              => call.matching_tickets = <<L1>>

(* C13: when the criteria require a trustable seller, filter_tickets        *)
(* returns and every listing of its output carries the trust flag.          *)
C13_TrustRequirement ==
    (/\ call.op = "filter_tickets"
     /\ HasAttr(call.criteria, "trustable_seller_only")
     /\ call.criteria.trustable_seller_only) =>
        /\ ~call.raised
        /\ \A t \in Range(call.matching_tickets) :
              HasAttr(t, "trustable_seller") /\ t.trustable_seller

\* a and b are equal up to the case of their letters
SameFolded(a, b) ==
    /\ Len(a) = Len(b)
    /\ \A i \in 1..Len(a) : LowerChar(a[i]) = LowerChar(b[i])

\* a is, up to case, a run of consecutive characters of b
FoldedSubstring(a, b) ==
    \E i \in 1..(Len(b) + 1) : \E j \in (i - 1)..Len(b) : SameFolded(a, SubSeq(b, i, j))

(* C14: for criteria that carry preferred_sections, the section check       *)
(* returns; with no preferred section it passes every listing; otherwise    *)
(* it passes a listing iff the listing has a non-empty section and, up to   *)
(* case, some preferred string is a substring of the section or the         *)
(* section is a substring of that preferred string.                         *)
C14_SectionPredicate ==
    (call.op = "section_check" /\ HasAttr(call.criteria, "preferred_sections")) =>
        LET preferred == call.criteria.preferred_sections
            section == call.tickets[1].section
        IN  /\ ~call.raised
            /\ preferred = <<>> => call.value
            /\ preferred # <<>> =>
                  (call.value <=>
                     /\ section # None
                     /\ section # <<>>
                     /\ \E k \in DOMAIN preferred :
                           \/ FoldedSubstring(preferred[k], section)
                           \/ FoldedSubstring(section, preferred[k]))

\* a listing with section 'A' passes preferences ['B', 'ab']: the section is
\* a substring of a preferred string, in another case
C14_Witness ==
    /\ call.op = "section_check"
    /\ HasAttr(call.criteria, "preferred_sections")
    /\ call.criteria.preferred_sections = << <<"B">>, <<"a", "b">> >>
    /\ call.tickets[1].section = <<"A">>
    /\ call.value

\* out is a subsequence of in: out[i..] can be found, in order, in in[j..]
RECURSIVE IsSubsequenceFrom(_, _, _, _)
IsSubsequenceFrom(out, in, i, j) ==
    IF i > Len(out) THEN TRUE
    ELSE IF j > Len(in) THEN FALSE
    ELSE IF out[i] = in[j] /\ IsSubsequenceFrom(out, in, i + 1, j + 1) THEN TRUE
    ELSE IsSubsequenceFrom(out, in, i, j + 1)

(* C15: a filter_tickets call leaves the list and the criteria it was       *)
(* given and the seen-ticket table as they were, and the list it returns    *)
(* is a subsequence of its input: listings of the input, unmodified, in     *)
(* the input's order, each position used at most once.                      *)
C15_FilterPure ==
    [][call'.op = "filter_tickets" =>
          /\ call'.tickets = call.tickets
          /\ call'.criteria = call.criteria
          /\ seen_tickets' = seen_tickets
          /\ ~call'.raised =>
                IsSubsequenceFrom(call'.matching_tickets, call.tickets, 1, 1)]_vars

C15_Witness ==
    /\ call.op = "filter_tickets"
    /\ ~call.raised
    /\ seen_tickets # {}
    /\ Len(call.tickets) = 3
    /\ call.matching_tickets = <<call.tickets[1], call.tickets[3]>>
    /\ call.tickets[1] # call.tickets[3]
    /\ call.tickets[2] # call.tickets[3]

\* the tuple with None replaced by the empty string in section and row
Normalised(a) == <<a[1], a[2], OrEmpty(a[3]), OrEmpty(a[4])>>

(* C16: two (price, quantity, section, row) tuples get the same identity    *)
(* iff they are equal once None is replaced by the empty string in section  *)
(* and row.                                                                 *)
C16_IdentityInjective ==
    (call.op = "_generate_ticket_id" /\ Len(call.ticket_ids) = 2) =>
        ((call.ticket_ids[1] = call.ticket_ids[2])
            <=> (Normalised(call.args[1]) = Normalised(call.args[2])))

\* the step is a cleanup_old_tickets call, for call'.days
CleanupStep == ~call.running /\ call'.op = "cleanup_old_tickets" /\ now' = now

(* C17: cleanup_old_tickets(days), for every instant and every days >= 0,   *)
(* returns without error, deletes exactly the rows whose last_seen is       *)
(* earlier than now - days, keeps every other row and returns the number    *)
(* of rows it deleted.                                                      *)
C17_RetentionCleanup ==
    [][CleanupStep =>
         LET old == {r \in seen_tickets : r.last_seen < now - call'.days}
         IN  /\ ~call'.raised
             /\ seen_tickets' = seen_tickets \ old
             /\ call'.deleted_count = Cardinality(old)]_vars

\* the step is the run of _check_match for searches[idx], its page not loading
FailedLoadStep ==
    /\ idx \in DOMAIN runs
    /\ runs' # runs
    /\ ~runs'[idx].loaded

TickReturns == (idx > 0) ~> (idx = 0)

\* the next scheduled tick runs
NextTickRuns == \A k \in 0..(MaxTicks - 1) : (tick = k) ~> (tick = k + 1)

(* C20: whatever the pipelines of a tick raise, the process does not end,   *)
(* the tick handler returns and the next scheduled tick runs.               *)
C20_ScheduleSurvives == [](idx # Exited) /\ TickReturns /\ NextTickRuns

\* the last tick is over, and in it and in the tick before it the pipeline of
\* a match ended in the exception handler of _check_match
C20_Witness ==
    /\ tick = MaxTicks
    /\ idx = 0
    /\ \E i \in DOMAIN runs :
          /\ runs[i].tick = tick
          /\ runs[i].outcome = "error"
          /\ runs[i].prev_outcome = "error"

\* how many times the channel is in the attempts of the call
Attempts(channel) == Cardinality({i \in DOMAIN call.attempts : call.attempts[i] = channel})

(* C19: send_notification returns normally whichever deliveries fail; with  *)
(* a non-empty list it attempts each channel that is enabled and            *)
(* configured exactly once and no other channel; with the empty list it     *)
(* attempts none.                                                           *)
C19_ChannelIsolation ==
    call.op = "send_notification" =>
        LET st == call.settings
        IN  /\ ~call.raised
            /\ call.tickets = <<>> => call.attempts = <<>>
            /\ call.tickets # <<>> =>
                  /\ Attempts("email") =
                        (IF st.email_enabled /\ st.email_to # None /\ st.email_username # None
                         THEN 1 ELSE 0)
                  /\ Attempts("pushover") =
                        (IF st.pushover_enabled /\ st.pushover_api_key # None
                            /\ st.pushover_user_key # None
                         THEN 1 ELSE 0)
                  /\ Attempts("desktop") =
                        (IF st.desktop_notifications_enabled THEN 1 ELSE 0)

\* every delivery fails, the three channels are enabled, push is not configured
C19_Witness ==
    /\ call.op = "send_notification"
    /\ call.tickets # <<>>
    /\ call.fails = [email |-> TRUE, pushover |-> TRUE, desktop |-> TRUE]
    /\ call.settings.pushover_enabled /\ call.settings.pushover_api_key = None
    /\ call.attempts = <<"email", "desktop">>

IsNumberText(text) == text # None /\ ~ParseNumber(text).raised

\* every slot that names a match gives it both numbers, and the legacy
\* variables that are set are numbers
ValidEnvironment(env) ==
    /\ env.slots[1].name # None
    /\ \A n \in DOMAIN env.slots :
          env.slots[n].name # None =>
             IsNumberText(env.slots[n].min_tickets) /\ IsNumberText(env.slots[n].max_price)
    /\ env.legacy.min_tickets # None => IsNumberText(env.legacy.min_tickets)
    /\ env.legacy.max_price # None => IsNumberText(env.legacy.max_price)

(* C21: a process started with a valid configuration and RUN_ONCE set, once  *)
(* it has ended, has run exactly one tick, every configured match once, and  *)
(* has exit code 0.                                                         *)
C21_RunOnceOneTickExitZero ==
    (proc.pc = "exited" /\ proc.run_once /\ ValidEnvironment(proc.env)) =>
        /\ proc.exit = <<0>>
        /\ tick = 1
        /\ \A i \in DOMAIN runs : runs[i].tick = 1

\* some slot, or the legacy format, names a match and leaves min tickets or
\* max price absent or unparsable
MissingRequired(env) ==
    \/ \E n \in DOMAIN env.slots :
          /\ env.slots[n].name # None
          /\ ~IsNumberText(env.slots[n].min_tickets) \/ ~IsNumberText(env.slots[n].max_price)
    \/ /\ env.legacy.name # None
       /\ ~IsNumberText(env.legacy.min_tickets) \/ ~IsNumberText(env.legacy.max_price)

\* the incomplete match is one the loader reads: a slot with every slot
\* before it named and complete, or, with slot 1 unnamed, the legacy match
\* with a variable set to a text that is no number (an unset MIN_TICKETS or
\* MAX_PRICE of the legacy format has a default)
ReadIncomplete(env) ==
    \/ \E n \in DOMAIN env.slots :
          /\ env.slots[n].name # None
          /\ ~IsNumberText(env.slots[n].min_tickets) \/ ~IsNumberText(env.slots[n].max_price)
          /\ \A k \in 1..(n - 1) :
                /\ env.slots[k].name # None
                /\ IsNumberText(env.slots[k].min_tickets)
                /\ IsNumberText(env.slots[k].max_price)
    \/ /\ env.slots[1].name = None
       /\ env.legacy.name # None
       /\ \/ env.legacy.min_tickets # None /\ ~IsNumberText(env.legacy.min_tickets)
          \/ env.legacy.max_price # None /\ ~IsNumberText(env.legacy.max_price)

(* C22: a process whose environment names a match and leaves its min         *)
(* tickets or max price absent or unparsable ends with a non-zero exit code *)
(* with no tick run, nothing scraped, the store empty and nothing notified; *)
(* when the loader reads that match, what ends the process is the           *)
(* ValueError of the loader.                                                *)
C22_ConfigurationErrorIsFatal ==
    (proc.pc = "exited" /\ MissingRequired(proc.env)) =>
        /\ proc.exit # <<0>>
        /\ tick = 0
        /\ \A i \in DOMAIN runs : runs[i] = NoMatchRun
        /\ seen_tickets = {}
        /\ notifications = <<>>
        /\ ReadIncomplete(proc.env) => proc.fatal = "ValueError"

C22_Witness ==
    /\ proc.pc = "exited"
    /\ proc.exit = <<1>>
    /\ proc.fatal = "ValueError"
    /\ proc.env.slots[1] = EnvMatch(<<"A">>, <<"2">>, <<"3", "0", "0">>)
    /\ proc.env.slots[2] = EnvMatch(<<"A">>, None, <<"x">>)

(* C23: when start() registers the interval job and when it starts the      *)
(* scheduler, one tick has been run and is over: every configured match was *)
(* checked in it and no check is in progress.                               *)
C23_ImmediateTickFirst ==
    [][(proc'.pc \in {"start_scheduler", "scheduler"} /\ proc'.pc # proc.pc) =>
          /\ tick = 1
          /\ idx = 0
          /\ proc.executing = 0
          /\ \A i \in DOMAIN runs : runs[i].tick = 1 /\ runs[i].outcome # "none"]_vars

C23_Witness ==
    /\ proc.pc = "scheduler"
    /\ tick = 1
    /\ Len(searches) = 2
    /\ \A i \in DOMAIN runs : runs[i].tick = 1

(* C24: at most one execution of check_tickets is in progress in every      *)
(* state, the immediate tick of start() and the scheduled ticks included;   *)
(* a fire that finds a tick in progress is skipped.                         *)
C24_NoConcurrentTicks == proc.executing <= 1

C24_Witness ==
    /\ proc.skipped
    /\ proc.executing = 1
    /\ tick = 2
    /\ idx \in 1..Len(searches)

RowComplete(r) ==
    DOMAIN r = {"ticket_id", "match_name", "price", "quantity", "section", "row", "url",
                "first_seen", "last_seen"}

(* C25: once a KeyboardInterrupt has been received no step starts a tick,   *)
(* and every row of the table is a complete row.                            *)
C25_InterruptStopsTicks ==
    [][proc.interrupted => (tick' = tick /\ \A r \in seen_tickets' : RowComplete(r))]_vars

NoCandidateParses(offers) ==
    \A i \in DOMAIN offers : _parse_ticket_element(offers[i]) = <<>>

(* C26 as claimed: when the query for offer elements returns, the           *)
(* alternative scan is used iff the query gave no element, and with at      *)
(* least one element the result holds the parsed offers only.              *)
C26_FallbackOnZeroCandidates ==
    (call.op = "_extract_tickets" /\ ~call.page.query_fails) =>
        /\ call.alternative <=> call.page.offers = <<>>
        /\ call.page.offers # <<>> => call.tickets = ParseOffers(call.page.offers)

(* C26, amended: the alternative scan is used iff the query for offer       *)
(* elements returns and no offer element parses into a listing (there is   *)
(* none, or every one fails); its listings are then the result.  When some *)
(* offer element parses, the result is the parsed offers, in page order,   *)
(* and nothing else; when the query raises, the result is empty.           *)
C26_FallbackOnZeroListings ==
    call.op = "_extract_tickets" =>
        /\ call.alternative <=>
              (~call.page.query_fails /\ NoCandidateParses(call.page.offers))
        /\ call.alternative => call.tickets = _extract_tickets_alternative(call.page.prices)
        /\ (~call.page.query_fails /\ ~NoCandidateParses(call.page.offers)) =>
              call.tickets = ParseOffers(call.page.offers)
        /\ call.page.query_fails => call.tickets = <<>>

C26_Witness ==
    /\ call.op = "_extract_tickets"
    /\ call.page.offers = <<Element(<<"x">>, <<"2">>), Element(None, None)>>
    /\ call.alternative
    /\ call.tickets = <<Listing(200, 1, None, None, "event")>>

(* C27: every listing _extract_tickets gives has a price that is a number   *)
(* and a quantity that is a positive integer; _parse_ticket_element gives  *)
(* no listing for an element without a parsable price, and otherwise a     *)
(* listing whose quantity is the number of the quantity text when the      *)
(* element has one with a number in it, and 1 when it has not.             *)
C27_PriceAndPositiveQuantity ==
    /\ call.op = "_extract_tickets" =>
          \A i \in DOMAIN call.tickets :
             /\ call.tickets[i].price \in Nat
             /\ call.tickets[i].quantity \in Nat \ {0}
    /\ call.op = "_parse_ticket_element" =>
          LET element == Head(call.page.offers)
          IN  IF element.price_text = None \/ ParsePrice(element.price_text).raised
              THEN call.tickets = <<>>
              ELSE /\ Len(call.tickets) = 1
                   /\ call.tickets[1].price = ParsePrice(element.price_text).value
                   /\ call.tickets[1].quantity \in Nat \ {0}
                   /\ call.tickets[1].quantity =
                         IF element.quantity_text \in {None, <<"x">>} THEN 1
                         ELSE DigitsValue(element.quantity_text)

NotifiedIds(log) == UNION {IdSet(log[n].tickets) : n \in DOMAIN log}

PassedFilter(search, ticket) ==
    ~_matches_criteria(search, ticket).raised /\ _matches_criteria(search, ticket).value

(* C29: the run of a match whose page gives no listing, or no listing that  *)
(* passes the match's filter, leaves the table and the notifications as    *)
(* they were; and every row of the table, in every state, holds the values *)
(* of a listing that passes the filter of the search whose name the row    *)
(* carries.                                                                *)
C29_OnlyFilteredReachStore ==
    [][/\ \A i \in DOMAIN runs :
             (/\ runs'[i] # runs[i]
              /\ \A k \in DOMAIN runs'[i].all_tickets :
                    ~PassedFilter(searches[i], runs'[i].all_tickets[k]))
             => /\ seen_tickets' = seen_tickets
                /\ notifications' = notifications
                /\ runs'[i].outcome \in {"no_tickets", "no_match"}
       /\ \A r \in seen_tickets' :
             \E i \in DOMAIN searches :
                /\ searches[i].match_name = r.match_name
                /\ PassedFilter(searches[i], r)]_vars

C29_Witness ==
    /\ Len(searches) = 2
    /\ tick = 2
    /\ runs[1].tick = 2 /\ runs[1].all_tickets = <<L4>> /\ runs[1].outcome = "no_match"
    /\ runs[2].tick = 1 /\ runs[2].all_tickets = <<L4>> /\ runs[2].outcome = "notified"
    /\ IdsOf(seen_tickets) = {L4.ticket_id}

====
